---- MODULE Spec2Model ----
(***************************************************************************)
(* A model of the Open Australian Legal Corpus Creator:                    *)
(*   - Creator.create (src/src/oalc_creator/creator.py), the pipeline that *)
(*     discovers Requests, indexes them, reconciles the corpus file and    *)
(*     fetches the missing Documents;                                      *)
(*   - get_document (src/sources/nsw_legislation.py), the primary/fallback *)
(*     fetch of one NSW legislation document.                              *)
(* Files on disk are variables; one run of create is a sequence of steps   *)
(* (pc), and the process may be interrupted between any two steps.         *)
(***************************************************************************)
EXTENDS Integers, Sequences, FiniteSets, TLC

(***************************************************************************)
(* Bounds of the model.                                                    *)
(***************************************************************************)
\* get_document is called at most MaxCalls times.
MaxCalls == 2
\* The clock runs from 0 to MaxTime.
MaxTime == 1
\* The corpus file found by the first run holds at most MaxInitCorpus records.
MaxInitCorpus == 2
\* The corpus file a reconciliation is checked on holds at most MaxCorpus records.
MaxCorpus == 3

(***************************************************************************)
(* The universe: two configured sources, one source outside the scope.     *)
(***************************************************************************)
\* self.scrapers.values(), in the order create iterates it.
Scrapers == <<"s1", "s2">>
\* self.scrapers (its keys): the sources in scope for the run.
InScope == {Scrapers[i] : i \in 1..Len(Scrapers)}
\* A source of records of the corpus that no configured scraper has.
Legacy == "legacy"

\* The Requests each source's adapter can generate.
RequestsOf(s) == IF s = "s1" THEN {"r1", "r2"} ELSE IF s = "s2" THEN {"r3"} ELSE {}
AllRequests == UNION {RequestsOf(s) : s \in InScope}

\* The version ids a Request's document index lists (scraper.get_index(req)),
\* in the order listed. r1 and r2 both list v2: a duplicate entry.
VersionIdsAt(r) ==
    IF r = "r1" THEN <<"v1", "v2">>
    ELSE IF r = "r2" THEN <<"v2", "v0">>
    ELSE <<"v3">>

\* The version ids whose document does not exist: scraper.get_doc returns None.
NoDocument == {"v0"}

\* The three values of a refresh interval: True, False, or a timedelta.
Always == "always"
Never == "never"
Duration == "duration"
\* The length of the timedelta of a source whose interval is a Duration.
IntervalLen == 0


\* A Document record of the corpus: its version_id and source.
Doc(v, s) == [version_id |-> v, source |-> s]
\* The records the corpus file may hold before the first run.
InitDocs == {Doc("v3", "s2"), Doc("v3", Legacy)}
\* The records of the corpus files a reconciliation is checked on: a record
\* an entry of its source has, one that only an entry of another source has,
\* two that no entry has (of a source in scope, of a foreign source), and a
\* foreign record with the version id of an entry.
ReconcileDocs ==
    {Doc("v1", "s1"), Doc("v3", "s1"), Doc("v9", "s1"), Doc("v9", Legacy), Doc("v1", Legacy)}

RECURSIVE SeqsUpTo(_, _)
SeqsUpTo(S, n) ==
    IF n = 0 THEN {<<>>}
    ELSE LET shorter == SeqsUpTo(S, n - 1)
         IN  shorter \cup {Append(q, x) : q \in {p \in shorter : Len(p) = n - 1}, x \in S}

Range(q) == {q[i] : i \in 1..Len(q)}

VARIABLES
    now,            \* datetime.now(), in ticks
    scraperCfg,     \* the refresh intervals of every scraper
    siteReqs,       \* what scraper.get_index_reqs() returns, per source
    indicesFile,    \* indices/<source>.json: the persisted Requests and the mtime
    indexFile,      \* index/<source>.jsonl: the rows [req, entries, when_indexed]
    corpus,         \* the corpus file: a sequence of Document records
    tmp_file,       \* <corpus>.tmp
    pc,             \* where create is
    index_reqs,     \* the results of _get_index_reqs gathered so far
    unindexed,      \* unindexed_index_reqs: the pairs [scraper, req] still to index
    loaded,         \* per scraper, the index _get_unindexed_index_reqs loaded, before the filter
    saved,          \* per scraper, whether _get_unindexed_index_reqs overwrote the index file
    k,              \* the position of the list comprehension over the scrapers
    entries,        \* version_id -> [scraper, request]
    pos,            \* the record of the corpus the rewrite streams next
    corpus_version_ids, \* the version ids written to the temporary file
    missing_entries,    \* the version ids still to fetch
    preCorpus,      \* the corpus file as the rewrite found it
    dropped,        \* the positions of preCorpus the rewrite did not write
    lastRun,        \* what the last run left, complete or interrupted, and whether anything changed since
    nswCorpus,      \* corpus.jsonl of the NSW legislation script: the urls of its documents
    downloaded,     \* indices/downloaded.jsonl: the urls recorded as downloaded
    gdPc,           \* where get_document is
    gdUrl,          \* the url of the call of get_document that is executing
    gdRecursive,    \* its argument recursive
    gdPlan,         \* how the attempts of this top-level call fare
    gdAttempts,     \* the urls this top-level call has requested, in order
    gdRaised,       \* the urls whose attempt raised
    gdBase,         \* the length of corpus.jsonl when the top-level call began
    gdError,        \* the url the exception raised to the caller names
    gdCalls,        \* the number of top-level calls
    versionsFile,   \* versions.json: whether it exists, and the versions it records
    data,           \* the Corpus file, the indices directory and the index directory
    dataBefore,     \* what they held when Creator.__init__ began
    todo,           \* the items of versions.json that the loop has yet to visit
    setupPc         \* where Creator.__init__ is

\* The sources and the clock; the files; the variables of a run; the history.
site == <<now, scraperCfg, siteReqs>>
indexFiles == <<indicesFile, indexFile>>
corpusFiles == <<corpus, tmp_file>>
discovery == <<index_reqs, unindexed, loaded, saved, k>>
reconciliation == <<entries, pos, corpus_version_ids, missing_entries, preCorpus, dropped>>

creator == <<site, indexFiles, corpusFiles, pc, discovery, reconciliation, lastRun>>
nsw == <<nswCorpus, downloaded, gdPc, gdUrl, gdRecursive, gdPlan, gdAttempts, gdRaised,
         gdBase, gdError, gdCalls>>

setup == <<versionsFile, data, dataBefore, todo, setupPc>>

vars == <<creator, nsw, setup>>


(***************************************************************************)
(* Pure functions of the pipeline.                                         *)
(***************************************************************************)
\* An Entry of a document index: its version_id and the Request that found it.
Entry(v, r) == [version_id |-> v, request |-> r]

\* scraper.get_index(req): the Entries the Request's document index lists.
GetIndexEntries(r) ==
    [i \in 1..Len(VersionIdsAt(r)) |-> Entry(VersionIdsAt(r)[i], r)]

\* _get_index: the row [request, entries, time the index was retrieved].
GetIndex(r, t) == [req |-> r, entries |-> GetIndexEntries(r), when_indexed |-> t]

\* MustGenerate with the age tested whatever the interval is.
MustGenerateWhenOld(file, interval, t) ==
    \/ ~file.exists
    \/ interval = Always
    \/ t - file.mtime > IntervalLen

\* The condition under which _get_index_reqs generates and saves new requests.
MustGenerate(file, interval, t) ==
    \/ ~file.exists
    \/ interval = Always
    \/ (interval # Never /\ t - file.mtime > IntervalLen)

\* KeepRow without the test of the provided requests.
KeepRowAnyReq(row, reqs, interval, t) ==
    interval = Never \/ t - row.when_indexed <= IntervalLen

\* KeepRow without the test of the age.
KeepRowIgnoreAge(row, reqs, interval, t) ==
    row.req \in reqs

\* The filter of _get_unindexed_index_reqs: the row's request is among the
\* provided requests and the row is not older than the index refresh interval.
KeepRow(row, reqs, interval, t) ==
    /\ row.req \in reqs
    /\ (interval = Never \/ t - row.when_indexed <= IntervalLen)

FilterIndex(rows, reqs, interval, t) ==
    SelectSeq(rows, LAMBDA row : KeepRow(row, reqs, interval, t))

\* The rows _get_unindexed_index_reqs loads from the index file: none if it
\* returns before loading.
LoadedIndex(file, interval) ==
    IF file.exists /\ interval # Always THEN file.rows ELSE <<>>

\* Overwrites whenever the index was loaded.
OverwritesAlways(file, reqs, interval, t) ==
    file.exists /\ interval # Always

\* Whether _get_unindexed_index_reqs calls orjsonl.save: the index was
\* loaded and the filter changed its length.
Overwrites(file, reqs, interval, t) ==
    /\ file.exists
    /\ interval # Always
    /\ Len(FilterIndex(file.rows, reqs, interval, t)) # Len(file.rows)

\* IndexFileAfter without the overwrite of the file.
IndexFileAfterNoSave(file, reqs, interval, t) ==
    IF ~file.exists THEN file
    ELSE IF interval = Always THEN [exists |-> FALSE, rows |-> <<>>]
    ELSE file

\* The index file as _get_unindexed_index_reqs leaves it.
IndexFileAfter(file, reqs, interval, t) ==
    IF ~file.exists THEN file
    ELSE IF interval = Always THEN [exists |-> FALSE, rows |-> <<>>]
    ELSE LET index == FilterIndex(file.rows, reqs, interval, t)
         IN  IF Len(index) # Len(file.rows)
             THEN [exists |-> TRUE, rows |-> index]
             ELSE file

\* UnindexedIndexReqs subtracting the requests of every row of the file,
\* filtered out or not.
UnindexedIndexReqsUnfiltered(file, reqs, interval, t) ==
    IF ~file.exists THEN reqs
    ELSE IF interval = Always THEN reqs
    ELSE reqs \ {file.rows[i].req : i \in 1..Len(file.rows)}

\* UnindexedIndexReqs returning the provided requests whatever the index holds.
UnindexedIndexReqsAll(file, reqs, interval, t) == reqs

\* The set of requests _get_unindexed_index_reqs returns.
UnindexedIndexReqs(file, reqs, interval, t) ==
    IF ~file.exists THEN reqs
    ELSE IF interval = Always THEN reqs
    ELSE LET index == FilterIndex(file.rows, reqs, interval, t)
         IN  reqs \ {index[i].req : i \in 1..Len(index)}

\* The list alive_gather returns: the results of the tasks that returned, in
\* the order of the scrapers from the i-th on.
RECURSIVE GatheredFrom(_, _)
GatheredFrom(results, i) ==
    IF i > Len(Scrapers) THEN <<>>
    ELSE (IF results[Scrapers[i]].task = "returned"
          THEN <<results[Scrapers[i]].reqs>> ELSE <<>>)
         \o GatheredFrom(results, i + 1)

\* zip(self.scrapers.values(), index_reqs): the i-th scraper with the i-th
\* gathered result.
Zipped(results) ==
    LET gathered == GatheredFrom(results, 1)
    IN  [i \in 1..(IF Len(gathered) < Len(Scrapers) THEN Len(gathered) ELSE Len(Scrapers)) |->
            [scraper |-> Scrapers[i], reqs |-> gathered[i]]]

\* The entries of one index, in file order, each with its scraper.
RECURSIVE FlattenRows(_, _)
FlattenRows(s, rows) ==
    IF rows = <<>> THEN <<>>
    ELSE [i \in 1..Len(Head(rows).entries) |->
              [scraper |-> s, entry |-> Head(rows).entries[i]]]
         \o FlattenRows(s, Tail(rows))

\* The entries of the indices of the scrapers from the i-th on.
RECURSIVE FlattenIndices(_, _)
FlattenIndices(files, i) ==
    IF i > Len(Scrapers) THEN <<>>
    ELSE FlattenRows(Scrapers[i], files[Scrapers[i]].rows) \o FlattenIndices(files, i + 1)

\* The dictionary comprehension of create: version_id -> [scraper, Entry],
\* where the last entry with a version id wins.
FlattenEntries(files) ==
    LET list == FlattenIndices(files, 1)
        last(v) == CHOOSE i \in 1..Len(list) :
                      /\ list[i].entry.version_id = v
                      /\ \A j \in (i + 1)..Len(list) : list[j].entry.version_id # v
    IN  [v \in {list[i].entry.version_id : i \in 1..Len(list)} |-> list[last(v)]]

\* KeepDoc without the test of the entries.
KeepDocOnlyForeign(doc, kept, ents) ==
    /\ doc.version_id \notin kept
    /\ doc.source \notin InScope

\* KeepDoc without the test of the version ids already written.
KeepDocNoDedup(doc, kept, ents) ==
    doc.version_id \in DOMAIN ents \/ doc.source \notin InScope

\* KeepDoc with "and" for "or".
KeepDocAnd(doc, kept, ents) ==
    /\ doc.version_id \notin kept
    /\ (doc.version_id \in DOMAIN ents /\ doc.source \notin InScope)

\* KeepDoc without the test of the source.
KeepDocIgnoreScope(doc, kept, ents) ==
    /\ doc.version_id \notin kept
    /\ doc.version_id \in DOMAIN ents

\* The condition under which the rewrite keeps a record of the corpus.
KeepDoc(doc, kept, ents) ==
    /\ doc.version_id \notin kept
    /\ (doc.version_id \in DOMAIN ents \/ doc.source \notin InScope)

\* scraper.get_doc(entry): the Document of the entry, or None (the empty
\* sequence) where the adapter skips the document.
GetDoc(s, v) == IF v \in NoDocument THEN <<>> ELSE <<Doc(v, s)>>

(***************************************************************************)
(* get_document of the NSW legislation script.                             *)
(***************************************************************************)
\* The documents of the index of NSW legislation.
NswDocuments == {"d1", "d2"}

\* The url of a document: .../view/whole/html/<path>, or .../view/whole/pdf/<path>.
Url(d, rendering) == [document |-> d, rendering |-> rendering]
NoUrl == Url("none", "none")

\* url.replace('/view/whole/html', '/view/whole/pdf')
FallbackUrl(url) == [url EXCEPT !.rendering = IF @ = "html" THEN "pdf" ELSE @]

\* How one attempt fares: the body of the suppress block up to the Document
\* (it parses, raises UnicodeDecodeError or IndexError, or raises another
\* exception), the append to corpus.jsonl and the append to downloaded.jsonl.
AttemptPlans ==
    {a \in [parse : {"parsed", "suppressed", "raises"},
            corpus : {"ok", "raises"},
            downloaded : {"ok", "raises"}] :
        /\ a.parse # "parsed" => a.corpus = "ok"
        /\ (a.parse = "raises" \/ a.corpus = "raises") => a.downloaded = "ok"}

Succeeds == [parse |-> "parsed", corpus |-> "ok", downloaded |-> "ok"]
NoPlan == [primary |-> Succeeds, fallback |-> Succeeds]

(***************************************************************************)
(* The state after Creator.__init__: the corpus file exists, no run is in  *)
(* progress.                                                               *)
(***************************************************************************)
NoFile == [exists |-> FALSE, reqs |-> {}, mtime |-> 0]
NoIndex == [exists |-> FALSE, rows |-> <<>>]
NoReqs == [task |-> "pending", reqs |-> {}]
NoIndexes == [s \in InScope |-> NoIndex]
NoRun == [complete |-> FALSE, insync |-> FALSE, corpus |-> <<>>,
          interrupted |-> "no", appended |-> 0, index |-> NoIndexes]
NoEntries == [v \in {} |-> [scraper |-> "s1", entry |-> Entry("v1", "r1")]]

\* The configurations of the scrapers the model is checked for: every value
\* of either interval.
CfgChoices ==
    {[s \in InScope |-> c] : c \in {[indices |-> Always, index |-> Duration],
                                     [indices |-> Never, index |-> Always],
                                     [indices |-> Duration, index |-> Never]}}

\* What the sources may publish: s1 r1, or r1 and r2; s2 nothing or r3.
SiteReqsChoices ==
    {f \in [InScope -> SUBSET AllRequests] :
        \A s \in InScope : f[s] \subseteq RequestsOf(s) /\ (s = "s1" => "r1" \in f[s])}

\* The variables of a run, which live in memory, when no run is in progress.
MemoryIdle ==
    /\ index_reqs' = [s \in InScope |-> NoReqs]
    /\ unindexed' = {}
    /\ loaded' = [s \in InScope |-> <<>>]
    /\ saved' = [s \in InScope |-> FALSE]
    /\ k' = 1
    /\ entries' = NoEntries
    /\ pos' = 1
    /\ corpus_version_ids' = <<>>
    /\ missing_entries' = {}
    /\ preCorpus' = <<>>
    /\ dropped' = {}

\* No call of get_document has been made.
NswInit ==
    /\ nswCorpus = <<>>
    /\ downloaded = <<>>
    /\ gdPc = "idle"
    /\ gdUrl = NoUrl
    /\ gdRecursive = FALSE
    /\ gdPlan = NoPlan
    /\ gdAttempts = <<>>
    /\ gdRaised = {}
    /\ gdBase = 0
    /\ gdError = NoUrl
    /\ gdCalls = 0

\* The data that have versions: the keys of data_paths.
DataNames == {"corpus", "indices", "index"}
\* The versions of the running build, and a version of another build.
Current == "current"
Other == "other"
DATA_VERSIONS == [name \in DataNames |-> Current]
\* The Corpus file or a directory: whether it exists, and what it holds.
Absent == [exists |-> FALSE, content |-> {}]
Empty == [exists |-> TRUE, content |-> {}]

\* Creator.__init__ has returned; nothing was there before.
SetupDone ==
    /\ versionsFile = [exists |-> TRUE, versions |-> DATA_VERSIONS]
    /\ data = [name \in DataNames |-> Empty]
    /\ dataBefore = [name \in DataNames |-> Absent]
    /\ todo = {}
    /\ setupPc = "done"

\* A Creator that has not run, whose corpus file is one of the given ones.
CreatorFrom(corpora) ==
    /\ now = 0
    /\ scraperCfg \in CfgChoices
    /\ siteReqs = [s \in InScope |-> RequestsOf(s)]
    /\ indicesFile = [s \in InScope |-> NoFile]
    /\ indexFile = [s \in InScope |-> NoIndex]
    /\ corpus \in corpora
    /\ tmp_file = <<>>
    /\ pc = "idle"
    /\ index_reqs = [s \in InScope |-> NoReqs]
    /\ unindexed = {}
    /\ loaded = [s \in InScope |-> <<>>]
    /\ saved = [s \in InScope |-> FALSE]
    /\ k = 1
    /\ entries = NoEntries
    /\ pos = 1
    /\ corpus_version_ids = <<>>
    /\ missing_entries = {}
    /\ preCorpus = <<>>
    /\ dropped = {}
    /\ lastRun = NoRun

CreatorInit == CreatorFrom(SeqsUpTo(InitDocs, MaxInitCorpus))

Init ==
    /\ NswInit
    /\ SetupDone
    /\ CreatorInit

(***************************************************************************)
(* Creator.create, step by step.                                           *)
(***************************************************************************)
\* create is called.
StartRun ==
    /\ pc = "idle"
    /\ pc' = "discover"
    /\ UNCHANGED <<site, indexFiles, corpusFiles, discovery, reconciliation, lastRun, nsw, setup>>

\* One task of the gather of the discovery phase: _get_index_reqs(scraper).
GetIndexReqs(s) ==
    /\ pc = "discover"
    /\ index_reqs[s].task = "pending"
    /\ IF MustGenerate(indicesFile[s], scraperCfg[s].indices, now)
       THEN /\ indicesFile' = [indicesFile EXCEPT ![s] =
                                  [exists |-> TRUE, reqs |-> siteReqs[s], mtime |-> now]]
            /\ index_reqs' = [index_reqs EXCEPT ![s] = [task |-> "returned", reqs |-> siteReqs[s]]]
       ELSE /\ indicesFile' = indicesFile
            /\ index_reqs' = [index_reqs EXCEPT ![s] =
                                  [task |-> "returned", reqs |-> indicesFile[s].reqs]]
    /\ UNCHANGED <<site, indexFile, corpusFiles, pc, unindexed, loaded, saved, k, reconciliation, lastRun, nsw, setup>>

\* The gather has every result.
Gathered ==
    /\ pc = "discover"
    /\ \A s \in InScope : index_reqs[s].task # "pending"
    /\ pc' = "unindexed"
    /\ UNCHANGED <<site, indexFiles, corpusFiles, discovery, reconciliation, lastRun, nsw, setup>>

\* One element of the list comprehension that calls _get_unindexed_index_reqs
\* for every scraper and its requests, flattened to pairs [scraper, req].
GetUnindexedIndexReqs ==
    /\ pc = "unindexed"
    /\ k <= Len(Zipped(index_reqs))
    /\ LET s == Zipped(index_reqs)[k].scraper
           reqs == Zipped(index_reqs)[k].reqs
           interval == scraperCfg[s].index
       IN  /\ indexFile' = [indexFile EXCEPT ![s] = IndexFileAfter(indexFile[s], reqs, interval, now)]
           /\ unindexed' = unindexed \cup
                  {[scraper |-> s, req |-> r] : r \in UnindexedIndexReqs(indexFile[s], reqs, interval, now)}
           /\ loaded' = [loaded EXCEPT ![s] = LoadedIndex(indexFile[s], interval)]
           /\ saved' = [saved EXCEPT ![s] = Overwrites(indexFile[s], reqs, interval, now)]
    /\ k' = k + 1
    /\ UNCHANGED <<site, indicesFile, corpusFiles, pc, index_reqs, reconciliation, lastRun, nsw, setup>>

\* If there are pairs to index, the index files of their sources are opened
\* for appending, which creates the ones that do not exist.
OpenIndexFiles ==
    /\ pc = "unindexed"
    /\ k > Len(Zipped(index_reqs))
    /\ LET sources_with_unindexed_indices == {t.scraper : t \in unindexed}
       IN  indexFile' = [s \in InScope |->
                            IF s \in sources_with_unindexed_indices
                            THEN [exists |-> TRUE, rows |-> indexFile[s].rows]
                            ELSE indexFile[s]]
    /\ pc' = IF unindexed = {} THEN "load" ELSE "indexing"
    /\ loaded' = [s \in InScope |-> <<>>]
    /\ saved' = [s \in InScope |-> FALSE]
    /\ UNCHANGED <<site, indicesFile, corpusFiles, index_reqs, unindexed, k, reconciliation, lastRun, nsw, setup>>

\* One indexing task completes: its row is appended to its source's index file.
AppendIndex(t) ==
    /\ pc = "indexing"
    /\ t \in unindexed
    /\ indexFile' = [indexFile EXCEPT ![t.scraper].rows = Append(@, GetIndex(t.req, now))]
    /\ unindexed' = unindexed \ {t}
    /\ UNCHANGED <<site, indicesFile, corpusFiles, pc, index_reqs, loaded, saved, k, reconciliation, lastRun, nsw, setup>>

\* Every indexing task has completed; the index files are closed.
Indexed ==
    /\ pc = "indexing"
    /\ unindexed = {}
    /\ pc' = "load"
    /\ UNCHANGED <<site, indexFiles, corpusFiles, discovery, reconciliation, lastRun, nsw, setup>>

\* The run ends before its end: the process is interrupted, or an exception
\* leaves create. The files stay as they are; a temporary file that is left
\* is never read (the next run truncates it), so the model drops it.
Abandon ==
    /\ pc' = "idle"
    /\ MemoryIdle
    /\ lastRun' = NoRun
    /\ tmp_file' = <<>>
    /\ UNCHANGED <<site, indexFiles, corpus, nsw, setup>>

\* The index of every scraper is loaded and the entries are flattened; the
\* temporary file is opened for writing. orjsonl.load raises for an index file
\* that does not exist.
LoadIndices ==
    /\ pc = "load"
    /\ \A s \in InScope : indexFile[s].exists
    /\ entries' = FlattenEntries(indexFile)
    /\ tmp_file' = <<>>
    /\ corpus_version_ids' = <<>>
    /\ pos' = 1
    /\ preCorpus' = corpus
    /\ dropped' = {}
    /\ pc' = "rewrite"
    /\ UNCHANGED <<site, indexFiles, corpus, discovery, missing_entries, lastRun, nsw, setup>>

LoadIndicesFails ==
    /\ pc = "load"
    /\ \E s \in InScope : ~indexFile[s].exists
    /\ Abandon

\* RewriteDoc writing the record it keeps at the head of the temporary file.
RewriteDocAtHead ==
    /\ pc = "rewrite"
    /\ pos <= Len(corpus)
    /\ LET doc == corpus[pos]
       IN  IF KeepDoc(doc, Range(corpus_version_ids), entries)
           THEN /\ tmp_file' = <<doc>> \o tmp_file
                /\ corpus_version_ids' = Append(corpus_version_ids, doc.version_id)
                /\ dropped' = dropped
           ELSE /\ dropped' = dropped \cup {pos}
                /\ UNCHANGED <<tmp_file, corpus_version_ids>>
    /\ pos' = pos + 1
    /\ UNCHANGED <<site, indexFiles, corpus, pc, discovery, entries, missing_entries, preCorpus, lastRun, nsw, setup>>

\* RewriteDoc writing to the corpus file itself.
RewriteDocInPlace ==
    /\ pc = "rewrite"
    /\ pos <= Len(corpus)
    /\ tmp_file' = IF KeepDoc(corpus[pos], Range(corpus_version_ids), entries)
                   THEN Append(tmp_file, corpus[pos]) ELSE tmp_file
    /\ corpus' = tmp_file' \o SubSeq(corpus, Len(tmp_file') + 1, Len(corpus))
    /\ corpus_version_ids' = IF KeepDoc(corpus[pos], Range(corpus_version_ids), entries)
                             THEN Append(corpus_version_ids, corpus[pos].version_id)
                             ELSE corpus_version_ids
    /\ dropped' = IF KeepDoc(corpus[pos], Range(corpus_version_ids), entries)
                  THEN dropped ELSE dropped \cup {pos}
    /\ pos' = pos + 1
    /\ UNCHANGED <<site, indexFiles, pc, discovery, entries, missing_entries, preCorpus, lastRun, nsw, setup>>

\* One record of the corpus is streamed: written to the temporary file, or not.
RewriteDoc ==
    /\ pc = "rewrite"
    /\ pos <= Len(corpus)
    /\ LET doc == corpus[pos]
       IN  IF KeepDoc(doc, Range(corpus_version_ids), entries)
           THEN /\ tmp_file' = Append(tmp_file, doc)
                /\ corpus_version_ids' = Append(corpus_version_ids, doc.version_id)
                /\ dropped' = dropped
           ELSE /\ dropped' = dropped \cup {pos}
                /\ UNCHANGED <<tmp_file, corpus_version_ids>>
    /\ pos' = pos + 1
    /\ UNCHANGED <<site, indexFiles, corpus, pc, discovery, entries, missing_entries, preCorpus, lastRun, nsw, setup>>

\* os.replace: the temporary file becomes the corpus file.
Replace ==
    /\ pc = "rewrite"
    /\ pos > Len(corpus)
    /\ corpus' = tmp_file
    /\ tmp_file' = <<>>
    /\ pc' = "replaced"
    /\ UNCHANGED <<site, indexFiles, discovery, reconciliation, lastRun, nsw, setup>>

\* FindMissing with the test of the version id inverted.
FindMissingInverted ==
    /\ pc = "replaced"
    /\ missing_entries' = {v \in DOMAIN entries : v \in Range(corpus_version_ids)}
    /\ pc' = IF missing_entries' = {} THEN "done" ELSE "fetch"
    /\ UNCHANGED <<site, indexFiles, corpusFiles, discovery, entries, pos, corpus_version_ids, preCorpus, dropped, lastRun, nsw, setup>>

\* FindMissing taking every entry for missing.
FindMissingAll ==
    /\ pc = "replaced"
    /\ missing_entries' = DOMAIN entries
    /\ pc' = IF missing_entries' = {} THEN "done" ELSE "fetch"
    /\ UNCHANGED <<site, indexFiles, corpusFiles, discovery, entries, pos, corpus_version_ids, preCorpus, dropped, lastRun, nsw, setup>>

\* The entries whose version id is not in the corpus are the missing ones;
\* create returns if there are none.
FindMissing ==
    /\ pc = "replaced"
    /\ missing_entries' = {v \in DOMAIN entries : v \notin Range(corpus_version_ids)}
    /\ pc' = IF missing_entries' = {} THEN "done" ELSE "fetch"
    /\ UNCHANGED <<site, indexFiles, corpusFiles, discovery, entries, pos, corpus_version_ids, preCorpus, dropped, lastRun, nsw, setup>>

\* One fetch task completes: its Document, if any, is appended to the corpus.
AppendDoc(v) ==
    /\ pc = "fetch"
    /\ v \in missing_entries
    /\ corpus' = corpus \o GetDoc(entries[v].scraper, v)
    /\ missing_entries' = missing_entries \ {v}
    /\ UNCHANGED <<site, indexFiles, tmp_file, pc, discovery, entries, pos, corpus_version_ids, preCorpus, dropped, lastRun, nsw, setup>>

\* Every fetch task has completed.
Fetched ==
    /\ pc = "fetch"
    /\ missing_entries = {}
    /\ pc' = "done"
    /\ UNCHANGED <<site, indexFiles, corpusFiles, discovery, reconciliation, lastRun, nsw, setup>>

\* The persisted requests are the ones the sources publish now.
InSync == \A s \in InScope : indicesFile[s].exists /\ indicesFile[s].reqs = siteReqs[s]

\* create returns.
Return ==
    /\ pc = "done"
    /\ pc' = "idle"
    /\ MemoryIdle
    /\ lastRun' = [complete |-> TRUE, insync |-> InSync, corpus |-> corpus,
                    interrupted |-> "no", appended |-> 0, index |-> NoIndexes]
    /\ UNCHANGED <<site, indexFiles, corpusFiles, nsw, setup>>

\* The process is interrupted in the middle of a run.
Interrupt ==
    /\ pc \notin {"idle", "done"}
    /\ Abandon

(***************************************************************************)
(* The environment, between two runs.                                      *)
(***************************************************************************)
Tick ==
    /\ pc = "idle"
    /\ now < MaxTime
    /\ now' = now + 1
    /\ UNCHANGED <<scraperCfg, siteReqs, indexFiles, corpusFiles, pc, discovery, reconciliation, lastRun, nsw, setup>>

\* The sources publish other requests.
SiteChange ==
    /\ pc = "idle"
    /\ siteReqs' \in SiteReqsChoices \ {siteReqs}
    /\ lastRun' = NoRun
    /\ UNCHANGED <<now, scraperCfg, indexFiles, corpusFiles, pc, discovery, reconciliation, nsw, setup>>

Next ==
    \/ StartRun
    \/ \E s \in InScope : GetIndexReqs(s)
    \/ Gathered
    \/ GetUnindexedIndexReqs
    \/ OpenIndexFiles
    \/ \E t \in unindexed : AppendIndex(t)
    \/ Indexed
    \/ LoadIndices
    \/ LoadIndicesFails
    \/ RewriteDoc
    \/ Replace
    \/ FindMissing
    \/ \E v \in missing_entries : AppendDoc(v)
    \/ Fetched
    \/ Return
    \/ Interrupt
    \/ Tick
    \/ SiteChange

Spec == Init /\ [][Next]_vars

(***************************************************************************)
(* Properties of Creator.create.                                           *)
(***************************************************************************)
NoDuplicates(c) ==
    \A i, j \in 1..Len(c) : i # j => c[i].version_id # c[j].version_id

\* The run has replaced the corpus file.
Reconciled == pc \in {"replaced", "fetch", "done"}

\* The number of records up to the i-th that the rewrite wrote.
Rank(i) == Cardinality({j \in 1..i : j \notin dropped})

\* The i-th record of the corpus the rewrite found is of a foreign source.
Foreign(i) == preCorpus[i].source \notin InScope

\* The i-th record has the version id of an earlier record the rewrite wrote.
DuplicateOfKept(i) ==
    \E j \in 1..(i - 1) : j \notin dropped /\ preCorpus[j].version_id = preCorpus[i].version_id

\* The i-th record is of a source in scope and no entry has its version id.
Orphan(i) ==
    preCorpus[i].version_id \notin DOMAIN entries /\ preCorpus[i].source \in InScope

\* C1: after the rewrite of a run has replaced the corpus file, and during
\* and after the run's fetch phase, no two records of the corpus file have
\* the same version id, whatever the corpus file held before.
DedupInvariant == Reconciled => NoDuplicates(corpus)

\* A run has ended whose corpus file had duplicates and which appended a Document.
DedupWitness ==
    /\ pc = "done"
    /\ ~NoDuplicates(preCorpus)
    /\ Len(corpus) > Len(corpus_version_ids)

\* C2, as stated: every record the rewrite does not write has a version id
\* that no entry has and a source that is in scope.
RetentionAsStated == \A i \in dropped : Orphan(i)

\* C2, amended: every record the rewrite does not write either has a version
\* id that no entry has and a source in scope, or has the version id of an
\* earlier record that the rewrite wrote.
RetentionInvariant == \A i \in dropped : Orphan(i) \/ DuplicateOfKept(i)

\* The rewrite has dropped a record whose version id an entry has.
RetentionWitness ==
    /\ pc = "replaced"
    /\ \E i \in dropped : preCorpus[i].version_id \in DOMAIN entries /\ ~Foreign(i)

\* C3, as stated: every record of a foreign source is in the replaced corpus
\* file, unchanged.
ForeignAsStated ==
    Reconciled =>
        \A i \in 1..Len(preCorpus) :
            Foreign(i) => i \notin dropped /\ corpus[Rank(i)] = preCorpus[i]

\* C3, amended: every record of a foreign source is in the replaced corpus
\* file, unchanged, unless an earlier record that the rewrite wrote has its
\* version id.
ForeignInvariant ==
    Reconciled =>
        \A i \in 1..Len(preCorpus) :
            Foreign(i) =>
                IF i \in dropped THEN DuplicateOfKept(i)
                ELSE Rank(i) <= Len(corpus) /\ corpus[Rank(i)] = preCorpus[i]

\* The rewrite has kept a foreign record whose version id no entry has, and
\* dropped an orphan.
ForeignWitness ==
    /\ pc = "replaced"
    /\ \E i \in 1..Len(preCorpus) :
          Foreign(i) /\ i \notin dropped /\ preCorpus[i].version_id \notin DOMAIN entries
    /\ \E i \in dropped : Orphan(i)

\* The requests this run's discovery returned, of every scraper.
DiscoveredReqs == UNION {index_reqs[s].reqs : s \in InScope}

\* Version id v is listed by the document index of request r.
Lists(r, v) == \E i \in 1..Len(VersionIdsAt(r)) : VersionIdsAt(r)[i] = v

\* C4: once the corpus file is replaced, every record of it has a version id
\* in the entries or a source out of scope. Once the unindexed requests are
\* computed, no index file has a row of a request that is not among the
\* requests discovered for its source; so a record of a source in scope stays
\* in the corpus only if a request discovered in this run lists its version id.
OrphanRemoval ==
    /\ Reconciled =>
          \A i \in 1..Len(corpus) :
              \/ corpus[i].version_id \in DOMAIN entries
              \/ corpus[i].source \notin InScope
    /\ pc \in {"indexing", "load", "rewrite", "replaced", "fetch", "done"} =>
          \A s \in InScope : \A i \in 1..Len(indexFile[s].rows) :
              indexFile[s].rows[i].req \in index_reqs[s].reqs
    /\ Reconciled =>
          \A i \in 1..Len(corpus) :
              corpus[i].source \in InScope =>
                  \E r \in DiscoveredReqs : Lists(r, corpus[i].version_id)

\* A Document fetched by an earlier run is removed: no request of this run's
\* discovery lists v3 any more, and the rows of its request are gone.
OrphanRemovalWitness ==
    /\ pc = "replaced"
    /\ lastRun.complete
    /\ \E i \in dropped : preCorpus[i] = Doc("v3", "s2") /\ Orphan(i)
    /\ ~\E r \in DiscoveredReqs : Lists(r, "v3")
    /\ indexFile["s2"].exists /\ indexFile["s2"].rows = <<>>

\* What the rewrite makes of corpus c, given the entries: the records from
\* the i-th on, given the version ids kept before.
RECURSIVE ReconcileFrom(_, _, _, _)
ReconcileFrom(c, i, kept, ents) ==
    IF i > Len(c) THEN <<>>
    ELSE IF c[i].version_id \notin kept
            /\ (c[i].version_id \in DOMAIN ents \/ c[i].source \notin InScope)
         THEN <<c[i]>> \o ReconcileFrom(c, i + 1, kept \cup {c[i].version_id}, ents)
         ELSE ReconcileFrom(c, i + 1, kept, ents)

\* C5: no step taken while the temporary file is written, or after it is
\* written and before the replace, changes the corpus file, an interruption
\* included; the step that replaces it puts the whole reconciled corpus in
\* its place.
Atomicity ==
    [][pc = "rewrite" =>
          IF pc' = "replaced"
          THEN corpus' = ReconcileFrom(corpus, 1, {}, entries)
          ELSE corpus' = corpus]_vars

\* The temporary file is written, differs from the corpus file, and the
\* replace has not happened.
AtomicityWitness ==
    /\ pc = "rewrite"
    /\ pos > Len(corpus)
    /\ tmp_file # corpus
    /\ tmp_file # <<>>

Stale(row) == now - row.when_indexed > IntervalLen

\* The scrapers whose call of _get_unindexed_index_reqs has returned, among
\* those whose index refresh interval is a Duration.
ReturnedDuration ==
    {Scrapers[i] : i \in {j \in 1..(k - 1) : scraperCfg[Scrapers[j]].index = Duration}}

\* C8, as stated: a row older than the interval is not in the index file
\* after the call, and its request is among the requests returned.
StalenessAsStated ==
    pc = "unindexed" =>
        \A s \in ReturnedDuration : \A i \in 1..Len(loaded[s]) :
            Stale(loaded[s][i]) =>
                /\ loaded[s][i] \notin Range(indexFile[s].rows)
                /\ [scraper |-> s, req |-> loaded[s][i].req] \in unindexed

\* C8, amended: a row older than the interval is not in the index file after
\* the call, and its request is among the requests returned if it is among
\* the requests discovered for the source.
StalenessInvariant ==
    pc = "unindexed" =>
        \A s \in ReturnedDuration : \A i \in 1..Len(loaded[s]) :
            Stale(loaded[s][i]) =>
                /\ loaded[s][i] \notin Range(indexFile[s].rows)
                /\ loaded[s][i].req \in index_reqs[s].reqs =>
                      [scraper |-> s, req |-> loaded[s][i].req] \in unindexed

\* A call has returned that loaded two rows older than the interval, of a
\* request that is discovered and of one that is not.
StalenessWitness ==
    /\ pc = "unindexed"
    /\ \E s \in ReturnedDuration : \E i, j \in 1..Len(loaded[s]) :
          /\ Stale(loaded[s][i]) /\ loaded[s][i].req \in index_reqs[s].reqs
          /\ Stale(loaded[s][j]) /\ loaded[s][j].req \notin index_reqs[s].reqs

(***************************************************************************)
(* Tasks that raise. alive_gather and alive_as_completed catch the         *)
(* exception of a task, log it and leave the task out of what they return. *)
(***************************************************************************)
\* _get_index_reqs(scraper) raises: the task has no result.
GetIndexReqsRaises(s) ==
    /\ pc = "discover"
    /\ index_reqs[s].task = "pending"
    /\ index_reqs' = [index_reqs EXCEPT ![s] = [task |-> "raised", reqs |-> {}]]
    /\ UNCHANGED <<site, indexFiles, corpusFiles, pc, unindexed, loaded, saved, k, reconciliation, lastRun, nsw, setup>>

\* _get_index(scraper, req) raises: no row is appended for the request.
GetIndexRaises(t) ==
    /\ pc = "indexing"
    /\ t \in unindexed
    /\ unindexed' = unindexed \ {t}
    /\ UNCHANGED <<site, indexFiles, corpusFiles, pc, index_reqs, loaded, saved, k, reconciliation, lastRun, nsw, setup>>

\* The steps of create, with the tasks that raise; the sources and the clock
\* stay as they are.
NextIsolation ==
    \/ StartRun
    \/ \E s \in InScope : GetIndexReqs(s)
    \/ Gathered
    \/ GetUnindexedIndexReqs
    \/ OpenIndexFiles
    \/ \E t \in unindexed : AppendIndex(t)
    \/ Indexed
    \/ LoadIndices
    \/ LoadIndicesFails
    \/ RewriteDoc
    \/ Replace
    \/ FindMissing
    \/ \E v \in missing_entries : AppendDoc(v)
    \/ Fetched
    \/ Return
    \/ Interrupt
    \/ \E s \in InScope : GetIndexReqsRaises(s)
    \/ \E t \in unindexed : GetIndexRaises(t)

\* create with tasks that may raise, from an empty corpus.
InitIsolation ==
    /\ Init
    /\ corpus = <<>>

SpecIsolation == InitIsolation /\ [][NextIsolation]_vars

\* C7: failure isolation. When the pairs to index have been computed, every
\* pair is a request of a scraper whose discovery task returned, under that
\* scraper, and every scraper whose discovery task returned has had its
\* index file reconciled with its own requests.
IsolationAsStated ==
    (pc = "unindexed" /\ k > Len(Zipped(index_reqs))) =>
        /\ \A t \in unindexed :
              /\ index_reqs[t.scraper].task = "returned"
              /\ t.req \in index_reqs[t.scraper].reqs
        /\ \A s \in InScope : index_reqs[s].task = "returned" =>
              \A r \in index_reqs[s].reqs :
                  \/ [scraper |-> s, req |-> r] \in unindexed
                  \/ \E i \in 1..Len(indexFile[s].rows) : indexFile[s].rows[i].req = r

(***************************************************************************)
(* get_document(url), step by step. The variables of the Creator do not    *)
(* change.                                                                 *)
(***************************************************************************)
\* How the attempt that is executing fares.
Attempt == IF gdRecursive THEN gdPlan.fallback ELSE gdPlan.primary

\* The caller calls get_document(url) for the html url of a document.
Call(d) ==
    /\ gdPc \in {"idle", "returned", "raised"}
    /\ gdCalls < MaxCalls
    /\ gdCalls' = gdCalls + 1
    /\ gdUrl' = Url(d, "html")
    /\ gdRecursive' = FALSE
    /\ gdPlan' \in [primary : AttemptPlans, fallback : AttemptPlans]
    /\ gdAttempts' = <<>>
    /\ gdRaised' = {}
    /\ gdBase' = Len(nswCorpus)
    /\ gdError' = NoUrl
    /\ gdPc' = "parse"
    /\ UNCHANGED <<setup, creator, nswCorpus, downloaded>>

\* The url is requested and the response is decoded and parsed, inside
\* suppress(UnicodeDecodeError, IndexError).
Parse ==
    /\ gdPc = "parse"
    /\ gdAttempts' = Append(gdAttempts, gdUrl)
    /\ gdPc' = IF Attempt.parse = "parsed" THEN "append_corpus"
               ELSE IF Attempt.parse = "suppressed" THEN "append_downloaded"
               ELSE "except"
    /\ gdRaised' = IF Attempt.parse = "raises" THEN gdRaised \cup {gdUrl} ELSE gdRaised
    /\ UNCHANGED <<setup, creator, nswCorpus, downloaded, gdUrl, gdRecursive, gdPlan, gdBase,
                   gdError, gdCalls>>

\* orjsonl.append('corpus.jsonl', [document])
AppendCorpus ==
    /\ gdPc = "append_corpus"
    /\ IF Attempt.corpus = "ok"
       THEN /\ nswCorpus' = Append(nswCorpus, gdUrl)
            /\ gdPc' = "append_downloaded"
            /\ gdRaised' = gdRaised
       ELSE /\ nswCorpus' = nswCorpus
            /\ gdPc' = "except"
            /\ gdRaised' = gdRaised \cup {gdUrl}
    /\ UNCHANGED <<setup, creator, downloaded, gdUrl, gdRecursive, gdPlan, gdAttempts, gdBase,
                   gdError, gdCalls>>

\* orjsonl.append('indices/downloaded.jsonl', [['nsw_legislation', url]]); the
\* call returns, and so does the call that made it from its except clause.
AppendDownloaded ==
    /\ gdPc = "append_downloaded"
    /\ IF Attempt.downloaded = "ok"
       THEN /\ downloaded' = Append(downloaded, gdUrl)
            /\ gdPc' = "returned"
            /\ gdRaised' = gdRaised
       ELSE /\ downloaded' = downloaded
            /\ gdPc' = "except"
            /\ gdRaised' = gdRaised \cup {gdUrl}
    /\ UNCHANGED <<setup, creator, nswCorpus, gdUrl, gdRecursive, gdPlan, gdAttempts, gdBase,
                   gdError, gdCalls>>

\* Except raising at once, without the call for the pdf url.
ExceptNoFallback ==
    /\ gdPc = "except"
    /\ gdPc' = "raised"
    /\ gdError' = gdUrl
    /\ UNCHANGED <<setup, creator, nswCorpus, downloaded, gdUrl, gdRecursive, gdPlan,
                   gdAttempts, gdRaised, gdBase, gdCalls>>

\* Except without the test of recursive.
ExceptAlwaysRetries ==
    /\ gdPc = "except"
    /\ Len(gdAttempts) < 4
    /\ gdUrl' = FallbackUrl(gdUrl)
    /\ gdRecursive' = TRUE
    /\ gdPc' = "parse"
    /\ UNCHANGED <<setup, creator, nswCorpus, downloaded, gdPlan, gdAttempts, gdRaised, gdBase,
                   gdError, gdCalls>>

\* except Exception: the first call calls get_document for the pdf url, with
\* recursive=True; the recursive call raises an exception that names its url.
Except ==
    /\ gdPc = "except"
    /\ IF ~gdRecursive
       THEN /\ gdUrl' = FallbackUrl(gdUrl)
            /\ gdRecursive' = TRUE
            /\ gdPc' = "parse"
            /\ gdError' = gdError
       ELSE /\ gdPc' = "raised"
            /\ gdError' = gdUrl
            /\ UNCHANGED <<gdUrl, gdRecursive>>
    /\ UNCHANGED <<setup, creator, nswCorpus, downloaded, gdPlan, gdAttempts, gdRaised, gdBase,
                   gdCalls>>

NextDocument ==
    \/ \E d \in NswDocuments : Call(d)
    \/ Parse
    \/ AppendCorpus
    \/ AppendDownloaded
    \/ Except

\* The calls of get_document, with the Creator idle.
InitDocument ==
    /\ Init
    /\ \A s \in InScope : scraperCfg[s].indices = Always
    /\ corpus = <<>>

SpecDocument == InitDocument /\ [][NextDocument]_vars

\* The top-level call of get_document has ended.
Ended == gdPc \in {"returned", "raised"}

\* The top-level call requested its url and then the pdf url, and the corpus
\* gained one document, the one of the pdf url.
FellBack ==
    /\ gdPc = "returned"
    /\ Len(gdAttempts) = 2
    /\ gdAttempts[2] = FallbackUrl(gdAttempts[1])
    /\ gdAttempts[2] # gdAttempts[1]
    /\ Len(nswCorpus) = gdBase + 1
    /\ nswCorpus[Len(nswCorpus)] = gdAttempts[2]

RetryOnce ==
    /\ Len(gdAttempts) <= 2
    /\ Len(gdAttempts) >= 1 => gdAttempts[1].rendering = "html"
    /\ Len(gdAttempts) = 2 =>
          /\ gdAttempts[2] = FallbackUrl(gdAttempts[1])
          /\ gdAttempts[1] \in gdRaised
    /\ Ended => (Len(gdAttempts) = 2 <=> gdAttempts[1] \in gdRaised)
    /\ gdPc = "raised" =>
          /\ Len(gdAttempts) = 2
          /\ gdRaised = {gdAttempts[1], gdAttempts[2]}
          /\ gdError = gdAttempts[2]
    /\ gdPc = "returned" => (Len(gdAttempts) = 1 \/ gdAttempts[2] \notin gdRaised)

RetryOnceWitness ==
    /\ gdPc = "raised"
    /\ Len(gdAttempts) = 2
    /\ gdRaised = {gdAttempts[1], gdAttempts[2]}
    /\ gdError = gdAttempts[2]

(***************************************************************************)
(* The discovery phase.                                                    *)
(***************************************************************************)
\* C11: a discovery task that returns has invoked the generator exactly when
\* the requests file was absent, the interval is Always, or the interval is a
\* duration that now minus the file's mtime exceeds; then the file holds
\* exactly the generated set, stamped now, and that set is returned.
\* Otherwise the file is as it was and the persisted set is returned.
RefreshPolicy ==
    [][\A s \in InScope :
          (index_reqs[s].task = "pending" /\ index_reqs'[s].task = "returned") =>
              LET file == indicesFile[s]
                  invoked == \/ ~file.exists
                             \/ scraperCfg[s].indices = Always
                             \/ /\ scraperCfg[s].indices = Duration
                                /\ now - file.mtime > IntervalLen
              IN  IF invoked
                  THEN /\ indicesFile'[s] = [exists |-> TRUE, reqs |-> siteReqs[s], mtime |-> now]
                       /\ index_reqs'[s].reqs = siteReqs[s]
                  ELSE /\ indicesFile'[s] = file
                       /\ index_reqs'[s].reqs = file.reqs]_vars

\* Under Never, a task has returned the persisted set of a file that is older
\* than the duration and differs from what the source publishes.
RefreshPolicyWitness ==
    /\ pc = "discover"
    /\ \E s \in InScope :
          /\ index_reqs[s].task = "returned"
          /\ scraperCfg[s].indices = Never
          /\ now - indicesFile[s].mtime > IntervalLen
          /\ index_reqs[s].reqs = indicesFile[s].reqs
          /\ index_reqs[s].reqs # siteReqs[s]

(***************************************************************************)
(* The fetch phase.                                                        *)
(***************************************************************************)
\* The version ids of the records of a corpus, and of those of the sources in
\* scope.
VersionIds(c) == {c[i].version_id : i \in 1..Len(c)}
InScopeVersionIds(c) == {c[i].version_id : i \in {j \in 1..Len(c) : c[j].source \in InScope}}

\* The fetches are those of the entries the rewrite did not keep: each is
\* still to do, or has appended its Document, or had no Document to return;
\* none is of a version id the corpus holds.
FetchesTheMissing ==
    pc = "fetch" =>
        /\ missing_entries \subseteq DOMAIN entries \ Range(corpus_version_ids)
        /\ missing_entries \cap VersionIds(corpus) = {}
        /\ \A v \in DOMAIN entries \ Range(corpus_version_ids) :
              v \in missing_entries \/ v \in VersionIds(corpus) \/ v \in NoDocument
        /\ Len(corpus) - Len(corpus_version_ids) =
              Cardinality((DOMAIN entries \ Range(corpus_version_ids))
                              \ (missing_entries \cup NoDocument))

\* C12 as stated: the fetches are those of the missing entries, and when
\* create is done and every entry has a Document, the version ids of the
\* corpus's records of sources in scope are exactly the keys of the entries.
CompletenessAsStated ==
    /\ FetchesTheMissing
    /\ (pc = "done" /\ DOMAIN entries \cap NoDocument = {}) =>
          InScopeVersionIds(corpus) = DOMAIN entries

\* C12, amended: the fetches are those of the missing entries, and when
\* create is done and every entry has a Document, every key of the entries
\* is the version id of exactly one record of the corpus, of a source in scope
\* or not, and every record of a source in scope has a key for version id.
Completeness ==
    /\ FetchesTheMissing
    /\ (pc = "done" /\ DOMAIN entries \cap NoDocument = {}) =>
          /\ \A v \in DOMAIN entries :
                Cardinality({i \in 1..Len(corpus) : corpus[i].version_id = v}) = 1
          /\ InScopeVersionIds(corpus) \subseteq DOMAIN entries

\* create is done after it has appended Documents, every entry has a
\* Document, and one key of the entries is held by a record of a source that
\* is not in scope.
CompletenessWitness ==
    /\ pc = "done"
    /\ DOMAIN entries \cap NoDocument = {}
    /\ Len(corpus) > Len(corpus_version_ids)
    /\ \E i \in 1..Len(corpus) :
          corpus[i].source \notin InScope /\ corpus[i].version_id \in DOMAIN entries

(***************************************************************************)
(* Runs that resume after an interruption. The interruptions of the        *)
(* indexing phase and of the fetch phase leave a record of what the files  *)
(* held.                                                                   *)
(***************************************************************************)
\* The process is interrupted in the indexing phase, between two rows.
InterruptIndexing ==
    /\ pc = "indexing"
    /\ pc' = "idle"
    /\ MemoryIdle
    /\ tmp_file' = <<>>
    /\ lastRun' = [complete |-> FALSE, insync |-> InSync, corpus |-> corpus,
                   interrupted |-> "indexing", appended |-> 0, index |-> indexFile]
    /\ UNCHANGED <<site, indexFiles, corpus, nsw, setup>>

\* The process is interrupted in the fetch phase, between two records.
InterruptFetch ==
    /\ pc = "fetch"
    /\ pc' = "idle"
    /\ MemoryIdle
    /\ tmp_file' = <<>>
    /\ lastRun' = [complete |-> FALSE, insync |-> InSync, corpus |-> corpus,
                   interrupted |-> "fetch",
                   appended |-> Len(corpus) - Len(corpus_version_ids),
                   index |-> NoIndexes]
    /\ UNCHANGED <<site, indexFiles, corpus, nsw, setup>>

NextResume ==
    \/ StartRun
    \/ \E s \in InScope : GetIndexReqs(s)
    \/ Gathered
    \/ GetUnindexedIndexReqs
    \/ OpenIndexFiles
    \/ \E t \in unindexed : AppendIndex(t)
    \/ Indexed
    \/ LoadIndices
    \/ LoadIndicesFails
    \/ RewriteDoc
    \/ Replace
    \/ FindMissing
    \/ \E v \in missing_entries : AppendDoc(v)
    \/ Fetched
    \/ Return
    \/ InterruptIndexing
    \/ InterruptFetch
    \/ Tick
    \/ SiteChange

\* The runs that resume, from an empty corpus.
InitResume ==
    /\ Init
    /\ corpus = <<>>

SpecResume == InitResume /\ [][NextResume]_vars

\* The records the run in progress has appended to the corpus.
Appended == SubSeq(corpus, Len(corpus_version_ids) + 1, Len(corpus))

\* C13: in a run that follows an interruption of the fetch phase, with the
\* sources unchanged, no Document the corpus held at the interruption is
\* fetched or appended again, and those the rewrite keeps stay where they
\* were; when the run is done and every entry has a Document, the corpus
\* holds exactly one record per version id of the entries.
ResumeFetch ==
    lastRun.interrupted = "fetch" =>
        /\ pc \in {"fetch", "done"} =>
              /\ missing_entries \cap VersionIds(lastRun.corpus) = {}
              /\ VersionIds(Appended) \cap VersionIds(lastRun.corpus) = {}
        /\ (pc \in {"fetch", "done"} /\ lastRun.insync) =>
              SubSeq(corpus, 1, Len(lastRun.corpus)) = lastRun.corpus
        /\ (pc = "done" /\ DOMAIN entries \cap NoDocument = {}) =>
              \A v \in DOMAIN entries :
                  Cardinality({i \in 1..Len(corpus) : corpus[i].version_id = v}) = 1

\* A run interrupted after it had appended a Document is followed by a run
\* that appends the Documents that were still missing, and is done.
ResumeFetchWitness ==
    /\ lastRun.interrupted = "fetch"
    /\ lastRun.appended > 0
    /\ lastRun.insync
    /\ pc = "done"
    /\ DOMAIN entries \cap NoDocument = {}
    /\ Len(corpus) > Len(lastRun.corpus)
    /\ Appended # <<>>

\* The row of the index at the interruption is one the filter keeps now.
StillFresh(s, row) ==
    /\ row.req \in index_reqs[s].reqs
    /\ \/ scraperCfg[s].index = Never
       \/ scraperCfg[s].index = Duration /\ now - row.when_indexed <= IntervalLen

\* C14: an interruption of the indexing phase leaves the index files with
\* every row appended before it; the next run, for a source whose interval
\* is not Always, keeps every such row that is still fresh and of a
\* discovered request, and submits for indexing none of their requests, but
\* every discovered request that has no such row.
ResumeIndexing ==
    lastRun.interrupted = "indexing" =>
        /\ pc \in {"idle", "discover"} => indexFile = lastRun.index
        /\ (pc = "unindexed" /\ k > Len(Zipped(index_reqs))) =>
              \A s \in InScope : scraperCfg[s].index # Always =>
                  LET rows == lastRun.index[s].rows
                      fresh == {i \in 1..Len(rows) : StillFresh(s, rows[i])}
                  IN  /\ \A i \in fresh :
                            /\ [scraper |-> s, req |-> rows[i].req] \notin unindexed
                            /\ rows[i] \in Range(indexFile[s].rows)
                      /\ \A r \in index_reqs[s].reqs :
                            [scraper |-> s, req |-> r] \in unindexed <=>
                                ~\E i \in fresh : rows[i].req = r

\* The run that follows an interruption of the indexing phase has found a
\* row that the interrupted run appended, and submits the request that run
\* had not indexed yet, and only it.
ResumeIndexingWitness ==
    /\ lastRun.interrupted = "indexing"
    /\ pc = "unindexed" /\ k > Len(Zipped(index_reqs))
    /\ scraperCfg["s1"].index # Always
    /\ Len(lastRun.index["s1"].rows) = 1
    /\ StillFresh("s1", lastRun.index["s1"].rows[1])
    /\ index_reqs["s1"].reqs = {"r1", "r2"}
    /\ Cardinality({t \in unindexed : t.scraper = "s1"}) = 1

(***************************************************************************)
(* Creator.__init__, step by step: the data of an earlier build.           *)
(***************************************************************************)
\* versions.json may record a version for any of the data, and for a name
\* that data_paths does not have.
VersionNames == DataNames \cup {"licence"}
RecordedVersions ==
    UNION {[names -> {Current, Other}] : names \in SUBSET VersionNames}

\* What the Corpus file or a directory may hold when __init__ begins.
DataChoices == {Absent, Empty, [exists |-> TRUE, content |-> {"old"}]}

\* DeleteIncompatible deleting whatever the recorded version is.
DeleteAlways(name) ==
    /\ setupPc = "versions"
    /\ name \in todo
    /\ todo' = todo \ {name}
    /\ data' = IF name \in DataNames /\ data[name].exists
               THEN [data EXCEPT ![name] = Absent] ELSE data
    /\ UNCHANGED <<creator, nsw, versionsFile, dataBefore, setupPc>>

\* os.path.exists(versions_path): if so the file is loaded.
CheckVersions ==
    /\ setupPc = "start"
    /\ IF versionsFile.exists
       THEN /\ todo' = DOMAIN versionsFile.versions
            /\ setupPc' = "versions"
       ELSE /\ todo' = {}
            /\ setupPc' = "makedirs"
    /\ UNCHANGED <<creator, nsw, versionsFile, data, dataBefore>>

\* One item of versions.items(): data that data_paths names, whose recorded
\* version is not the build's and that exist are deleted (shutil.rmtree for a
\* directory, unlink for the Corpus file).
DeleteIncompatible(name) ==
    /\ setupPc = "versions"
    /\ name \in todo
    /\ todo' = todo \ {name}
    /\ data' = IF /\ name \in DataNames
                  /\ versionsFile.versions[name] # DATA_VERSIONS[name]
                  /\ data[name].exists
               THEN [data EXCEPT ![name] = Absent] ELSE data
    /\ UNCHANGED <<creator, nsw, versionsFile, dataBefore, setupPc>>

\* The loop over versions.items() ends.
VersionsChecked ==
    /\ setupPc = "versions"
    /\ todo = {}
    /\ setupPc' = "makedirs"
    /\ UNCHANGED <<creator, nsw, versionsFile, data, dataBefore, todo>>

\* os.makedirs(path, exist_ok=True) for the two directories.
MakeDirs ==
    /\ setupPc = "makedirs"
    /\ data' = [name \in DataNames |->
                   IF name # "corpus" /\ ~data[name].exists THEN Empty ELSE data[name]]
    /\ setupPc' = "corpus"
    /\ UNCHANGED <<creator, nsw, versionsFile, dataBefore, todo>>

\* The Corpus file is created if it does not exist.
CreateCorpus ==
    /\ setupPc = "corpus"
    /\ data' = [data EXCEPT !["corpus"] = IF @.exists THEN @ ELSE Empty]
    /\ setupPc' = "save"
    /\ UNCHANGED <<creator, nsw, versionsFile, dataBefore, todo>>

\* save_json(versions_path, DATA_VERSIONS); __init__ returns.
SaveVersions ==
    /\ setupPc = "save"
    /\ versionsFile' = [exists |-> TRUE, versions |-> DATA_VERSIONS]
    /\ setupPc' = "done"
    /\ UNCHANGED <<creator, nsw, data, dataBefore, todo>>

NextSetup ==
    \/ CheckVersions
    \/ \E name \in VersionNames : DeleteIncompatible(name)
    \/ VersionsChecked
    \/ MakeDirs
    \/ CreateCorpus
    \/ SaveVersions

\* Creator.__init__ begins, with the data directory as an earlier build, or
\* none, left it.
InitSetup ==
    /\ NswInit
    /\ CreatorInit
    /\ \A s \in InScope : scraperCfg[s].indices = Always
    /\ corpus = <<>>
    /\ versionsFile \in {[exists |-> FALSE, versions |-> << >>]}
                        \cup {[exists |-> TRUE, versions |-> v] : v \in RecordedVersions}
    /\ data \in [DataNames -> DataChoices]
    /\ dataBefore = data
    /\ todo = {}
    /\ setupPc = "start"

SpecSetup == InitSetup /\ [][NextSetup]_vars

\* The data whose recorded version is not the build's.
Mismatched(name) ==
    /\ versionsFile.exists
    /\ name \in DOMAIN versionsFile.versions
    /\ versionsFile.versions[name] # DATA_VERSIONS[name]

\* C15: when __init__ has returned, the Corpus file and the directories
\* exist and versions.json records the build's versions; the data whose
\* recorded version differed are empty, the others hold what they held. While
\* __init__ runs, data whose recorded version differs and that the loop has
\* visited do not hold what they held.
VersionMismatch ==
    /\ setupPc = "done" =>
          /\ versionsFile = [exists |-> TRUE, versions |-> DATA_VERSIONS]
          /\ \A name \in DataNames :
                /\ data[name].exists
                /\ data[name].content \subseteq dataBefore[name].content
    /\ setupPc = "save" => \A name \in DataNames : data[name].exists
    /\ setupPc \in {"makedirs", "corpus", "save"} =>
          \A name \in DataNames :
              IF Mismatched(name)
              THEN data[name].content = {}
              ELSE data[name].content = dataBefore[name].content

\* __init__ has emptied the Corpus file, which an other build had written,
\* and left the index directory of this build as it was.
VersionMismatchWitness ==
    /\ setupPc = "save"
    /\ Mismatched("corpus") /\ dataBefore["corpus"].content # {} /\ data["corpus"] = Empty
    /\ ~Mismatched("index") /\ "index" \in DOMAIN versionsFile.versions
    /\ data["index"].content # {}

(***************************************************************************)
(* _get_unindexed_index_reqs.                                              *)
(***************************************************************************)
\* The requests of the pairs of a scraper.
ReqsOf(pairs, s) == {t.req : t \in {u \in pairs : u.scraper = s}}

\* C16: the call for the k-th scraper, whose index file exists and whose
\* interval is not Always, returns the discovered requests minus those of
\* the rows that are of a discovered request and, unless the interval is
\* Never, within the interval, and leaves exactly those rows in the file, in
\* their order; if the file is absent or the interval is Always, it returns
\* every discovered request and no file is left.
UnindexedResult ==
    [][(pc = "unindexed" /\ k' = k + 1) =>
          LET s == Scrapers[k]
              reqs == index_reqs[s].reqs
              file == indexFile[s]
              interval == scraperCfg[s].index
              survives(row) == /\ row.req \in reqs
                               /\ \/ interval = Never
                                  \/ now - row.when_indexed <= IntervalLen
              kept == SelectSeq(file.rows, survives)
          IN  /\ \A o \in InScope \ {s} :
                    /\ ReqsOf(unindexed', o) = ReqsOf(unindexed, o)
                    /\ indexFile'[o] = indexFile[o]
              /\ IF file.exists /\ interval # Always
                 THEN /\ ReqsOf(unindexed', s) = reqs \ {kept[i].req : i \in 1..Len(kept)}
                      /\ indexFile'[s] = [exists |-> TRUE, rows |-> kept]
                 ELSE /\ ReqsOf(unindexed', s) = reqs
                      /\ ~indexFile'[s].exists]_vars

\* The call for the first scraper has found two rows, left the first of them
\* and returned no request.
UnindexedResultWitness ==
    /\ pc = "unindexed"
    /\ k > 1
    /\ scraperCfg["s1"].index # Always
    /\ Len(loaded["s1"]) = 2
    /\ indexFile["s1"].rows = <<loaded["s1"][1]>>
    /\ ReqsOf(unindexed, "s1") = {}

\* C17: the index file of a scraper has at most one row per request, and a
\* request that is submitted for indexing has no row in the file of its
\* scraper.
OneTuplePerRequest ==
    /\ \A s \in InScope :
          \A i, j \in 1..Len(indexFile[s].rows) :
              indexFile[s].rows[i].req = indexFile[s].rows[j].req => i = j
    /\ (pc = "indexing" \/ (pc = "unindexed" /\ k > Len(Scrapers))) =>
          \A t \in unindexed :
              \A i \in 1..Len(indexFile[t.scraper].rows) :
                  indexFile[t.scraper].rows[i].req # t.req

\* The index file of a scraper holds the rows of two requests, which two
\* runs appended at different times.
OneTuplePerRequestWitness ==
    /\ pc = "load"
    /\ Len(indexFile["s1"].rows) = 2
    /\ \E i, j \in 1..2 :
          indexFile["s1"].rows[i].when_indexed < indexFile["s1"].rows[j].when_indexed

\* The row is of a request that discovery returned, and within the interval.
KeptByFilter(s, row) ==
    /\ row.req \in index_reqs[s].reqs
    /\ \/ scraperCfg[s].index = Never
       \/ now - row.when_indexed <= IntervalLen

\* The scrapers whose call of _get_unindexed_index_reqs has returned.
Called == {Scrapers[i] : i \in 1..(k - 1)}

\* C18: a call for a scraper whose interval is not Always overwrites the
\* index file exactly when the filter removed a row of the index it loaded;
\* when it removed none, the file holds what it held.
NoNeedlessRewrite ==
    pc = "unindexed" =>
        \A s \in Called : scraperCfg[s].index # Always =>
            /\ saved[s] <=> \E i \in 1..Len(loaded[s]) :
                               ~KeptByFilter(s, loaded[s][i])
            /\ ~saved[s] => indexFile[s].rows = loaded[s]

\* One call has loaded rows and overwritten nothing, another has removed a
\* row and overwritten the file.
NoNeedlessRewriteWitness ==
    /\ pc = "unindexed"
    /\ k > Len(Scrapers)
    /\ \A s \in InScope : scraperCfg[s].index # Always
    /\ \E s \in InScope : loaded[s] # <<>> /\ ~saved[s]
    /\ \E s \in InScope : saved[s]

\* C19: when create comes to load the index of every scraper, the index
\* file of every scraper exists.
IndexFilesExist ==
    pc = "load" => \A s \in InScope : indexFile[s].exists

\* C20: a top-level call of get_document appends at most one record to
\* corpus.jsonl.
AtMostOneWrite ==
    Len(nswCorpus) <= gdBase + 1

(***************************************************************************)
(* The rewrite of the corpus, on corpus files of every shape.              *)
(***************************************************************************)
\* Runs of create, one after the other, on a site that does not change.
NextReconcile ==
    \/ StartRun
    \/ \E s \in InScope : GetIndexReqs(s)
    \/ Gathered
    \/ GetUnindexedIndexReqs
    \/ OpenIndexFiles
    \/ \E t \in unindexed : AppendIndex(t)
    \/ Indexed
    \/ LoadIndices
    \/ RewriteDoc
    \/ Replace
    \/ FindMissing
    \/ \E v \in missing_entries : AppendDoc(v)
    \/ Fetched
    \/ Return

\* The first run finds any corpus file of at most MaxCorpus records.
InitReconcile ==
    /\ NswInit
    /\ SetupDone
    /\ CreatorFrom(SeqsUpTo(ReconcileDocs, MaxCorpus))

SpecReconcile == InitReconcile /\ [][NextReconcile]_vars

\* The i-th record of the corpus the rewrite found satisfies the retention
\* condition: an entry has its version id, or its source is not in scope.
Retainable(i) ==
    preCorpus[i].version_id \in DOMAIN entries \/ preCorpus[i].source \notin InScope

\* The i-th record is the first of its version id, in file order, that
\* satisfies the retention condition.
FirstRetainable(i) ==
    /\ Retainable(i)
    /\ \A j \in 1..(i - 1) :
           preCorpus[j].version_id = preCorpus[i].version_id => ~Retainable(j)

\* The positions, in the corpus the rewrite found, of the records it wrote.
Written == {i \in 1..Len(preCorpus) : i \notin dropped}

\* C21: when the rewrite has replaced the corpus file, the corpus is a
\* subsequence of the corpus the rewrite found (the records written, with
\* their content, in the order they had), and the records written are, for
\* each version id, the first record in file order whose version id an entry
\* has or whose source is not in scope.
OrderAndFirst ==
    pc = "replaced" =>
        /\ Len(corpus) = Cardinality(Written)
        /\ \A i \in Written : corpus[Rank(i)] = preCorpus[i]
        /\ Written = {i \in 1..Len(preCorpus) : FirstRetainable(i)}

\* The rewrite has replaced a corpus file of three records by two of them:
\* the first record, of a source in scope, had a version id no entry has and
\* was dropped, and a later foreign record of the same version id was written
\* next to a record of another version id.
OrderAndFirstWitness ==
    /\ pc = "replaced"
    /\ Len(preCorpus) = 3
    /\ Len(corpus) = 2
    /\ corpus[1].version_id # corpus[2].version_id
    /\ 1 \in dropped
    /\ ~Retainable(1)
    /\ \E i \in Written : preCorpus[i].version_id = preCorpus[1].version_id

====
